---- MODULE Spec2Model ----
(***************************************************************************)
(* A model of RangeMap<T> (src/src/range_map.rs): a map from the byte      *)
(* offsets of a fixed-size address space to data, stored as a vector of    *)
(* (range, data) elements.  Indices are 0-based as in the source; At(s, i) *)
(* is the source's s[i].  The model is the debug build: debug_assert! is   *)
(* active and a failed assertion (or a failed slice index) is a panic.     *)
(* Offsets stay far below 2^64, so u64/usize arithmetic never wraps.       *)
(***************************************************************************)
EXTENDS Integers, Sequences, FiniteSets, TLC

VARIABLES
    v,          \* RangeMap.v: the vector of Elem {range: start..end, data}
    total_size, \* the `size` given to RangeMap::new
    shadow,     \* per byte: the value the callers' writes have left there
    last,       \* the call made last and what it was observed to do
    script,     \* position in the scripted test tests::gaps (0 outside it)
    ast         \* the syntax tree given to AstIdMap::from_source and its map

vars == <<v, total_size, shadow, last, script, ast>>

\* Largest address space explored by Spec.
MaxSize == 5

\* The data values T ranges over in Spec (T is generic; the tests use i32).
Values == {-1, 42}

Sizes == 0..MaxSize
Offsets == 0..(MaxSize + 1)
Lens == 0..(MaxSize + 1)

\* What a caller does to each yielded `&mut T`: replace the value x by f[x].
\* The identity leaves every value unchanged; a constant function is a
\* uniform write.
Writes == [Values -> Values]

Id == [x \in Values |-> x]

Const(c) == [x \in Values |-> c]

-----------------------------------------------------------------------------
(* Elem, vectors *)

Elem(s, e, d) == [start |-> s, end |-> e, data |-> d]

At(s, i) == s[i + 1]

\* Range<u64>::contains
Contains(elem, x) == elem.start <= x /\ x < elem.end

\* RangeMap::new
new(size, init) == IF size > 0 THEN <<Elem(0, size, init)>> ELSE <<>>

-----------------------------------------------------------------------------
(* Panics.  A call ends normally ("none"), in a failed debug_assert!, or in *)
(* a failed bounds check of a vector index.                                 *)

Panics == {"debug_assert", "index"}

-----------------------------------------------------------------------------
(* find_offset: binary search for the index containing the offset *)

\* The loop of find_offset, entered with the interval [left, right).  The
\* result keeps, besides the index returned, the intervals of the
\* iterations in order (steps).
RECURSIVE find_offset_loop(_, _, _, _)
find_offset_loop(vv, offset, left, right) ==
    LET here == <<[left |-> left, right |-> right]>>
    IN
    IF ~(left < right)
    THEN [panic |-> "debug_assert", idx |-> 0, steps |-> here]
    ELSE LET candidate == (left + right) \div 2
         IN  IF ~(candidate < Len(vv))
             THEN [panic |-> "index", idx |-> 0, steps |-> here]
             ELSE
         LET elem == At(vv, candidate)
         IN  IF offset < elem.start
             THEN IF ~(candidate < right)
                  THEN [panic |-> "debug_assert", idx |-> 0, steps |-> here]
                  ELSE [find_offset_loop(vv, offset, left, candidate)
                            EXCEPT !.steps = here \o @]
             ELSE IF offset >= elem.end
             THEN IF ~(candidate >= left)
                  THEN [panic |-> "debug_assert", idx |-> 0, steps |-> here]
                  ELSE [find_offset_loop(vv, offset, candidate + 1, right)
                            EXCEPT !.steps = here \o @]
             ELSE [panic |-> "none", idx |-> candidate, steps |-> here]

\* Mutant of find_offset: the search leaves out the last element.
find_offset_short(vv, offset) == find_offset_loop(vv, offset, 0, Len(vv) - 1)

find_offset(vv, offset) == find_offset_loop(vv, offset, 0, Len(vv))

-----------------------------------------------------------------------------
(* iter: read-only iteration *)

\* Mutant of empty_query: the zero-length case is not told apart.
empty_query_never(len) == FALSE

\* A zero-length query: iter and iter_mut take an empty slice, without
\* looking at the vector.
empty_query(len) == len = 0

\* Mutant of iter_take: an element that starts at the window's end is taken.
iter_take_le(elem, end) == elem.start <= end

\* Mutant of iter_take: only elements that end inside the window are taken.
iter_take_inside(elem, end) == elem.end <= end

\* The take_while predicate of iter.
iter_take(elem, end) == elem.start < end

RECURSIVE take_while(_, _, _)
take_while(vv, idx, end) ==
    IF idx < Len(vv) /\ iter_take(At(vv, idx), end)
    THEN <<At(vv, idx).data>> \o take_while(vv, idx + 1, end)
    ELSE <<>>

\* iter(offset, len): how it ended, whether find_offset was called, and the
\* values yielded.
iter(vv, offset, len) ==
    IF empty_query(len)
    THEN [panic |-> "none", located |-> FALSE, yielded |-> <<>>]
    ELSE LET fo == find_offset(vv, offset)
         IN  IF fo.panic # "none"
             THEN [panic |-> fo.panic, located |-> TRUE, yielded |-> <<>>]
             ELSE [panic |-> "none", located |-> TRUE,
                   yielded |-> take_while(vv, fo.idx, offset + len)]

-----------------------------------------------------------------------------
(* split_index *)

\* Mutant of split_index: the first element keeps its old end.
split_index_keep_end(vv, index, split_offset) ==
    LET elem == At(vv, index)
    IN  IF split_offset = elem.start \/ split_offset = elem.end
        THEN [v |-> vv, split |-> FALSE, panic |-> "none"]
        ELSE [v |-> SubSeq(vv, 1, index)
                    \o <<elem, Elem(split_offset, elem.end, elem.data)>>
                    \o SubSeq(vv, index + 2, Len(vv)),
              split |-> TRUE, panic |-> "none"]

\* Mutant of split_index: an element that starts at split_offset is split.
split_index_at_start(vv, index, split_offset) ==
    LET elem == At(vv, index)
    IN  IF split_offset = elem.end
        THEN [v |-> vv, split |-> FALSE, panic |-> "none"]
        ELSE [v |-> SubSeq(vv, 1, index)
                    \o <<Elem(elem.start, split_offset, elem.data),
                         Elem(split_offset, elem.end, elem.data)>>
                    \o SubSeq(vv, index + 2, Len(vv)),
              split |-> TRUE, panic |-> "none"]

\* Mutant of split_index: the first element is cut at split_offset and no
\* second element is inserted.
split_index_truncates(vv, index, split_offset) ==
    LET elem == At(vv, index)
    IN  IF split_offset = elem.start \/ split_offset = elem.end
        THEN [v |-> vv, split |-> FALSE, panic |-> "none"]
        ELSE [v |-> SubSeq(vv, 1, index)
                    \o <<Elem(elem.start, split_offset, elem.data)>>
                    \o SubSeq(vv, index + 2, Len(vv)),
              split |-> TRUE, panic |-> "none"]

\* Mutant of split_index: nothing is ever split.
split_index_never(vv, index, split_offset) ==
    [v |-> vv, split |-> FALSE, panic |-> "none"]

split_index(vv, index, split_offset) ==
    IF ~(index < Len(vv))
    THEN [v |-> vv, split |-> FALSE, panic |-> "index"]
    ELSE
    LET elem == At(vv, index)
    IN  IF split_offset = elem.start \/ split_offset = elem.end
        THEN [v |-> vv, split |-> FALSE, panic |-> "none"]
        ELSE IF ~Contains(elem, split_offset)
        THEN [v |-> vv, split |-> FALSE, panic |-> "debug_assert"]
        ELSE [v |-> SubSeq(vv, 1, index)
                    \o <<Elem(elem.start, split_offset, elem.data),
                         Elem(split_offset, elem.end, elem.data)>>
                    \o SubSeq(vv, index + 2, Len(vv)),
              split |-> TRUE, panic |-> "none"]

-----------------------------------------------------------------------------
(* iter_mut: split at the window's start, scan for its end while merging   *)
(* runs of equal data, split at the window's end, yield the slice.         *)

\* The initial value of successful_merge_count.
InitialMergeCount == 3

\* Mutant of budget_left: the cutoff is not looked at.
budget_left_always(successful_merge_count) == TRUE

\* `if successful_merge_count > 0`: the scan still looks for runs to merge.
budget_left(successful_merge_count) == successful_merge_count > 0

\* Mutant of scan_done: an element that ends at the end of the window is not
\* the last one.
scan_done_past(elem, end) == elem.end > end

\* `done`: is this the last element the scan needs to look at?
scan_done(elem, end) == elem.end >= end

\* Mutant of scan_assert: the assertion is compiled out.
scan_assert_off(done, end_idx, n) == TRUE

\* The scan's debug_assert!: it is done, or there is a next element.
scan_assert(done, end_idx, n) == done \/ end_idx < n

\* Mutant of run_closes: the end of the scan does not close the run.
run_closes_not_at_end(vv, done, end_idx, equal_since_idx) ==
    /\ end_idx < Len(vv)
    /\ At(vv, end_idx).data # At(vv, equal_since_idx).data

\* Mutant of run_closes: a run is closed only at the end of the scan.
run_closes_only_done(vv, done, end_idx, equal_since_idx) == done

\* The run equal_since_idx..end_idx is closed here: the scan is done, or the
\* next element's data differs from the run's.
run_closes(vv, done, end_idx, equal_since_idx) ==
    done \/ At(vv, end_idx).data # At(vv, equal_since_idx).data

\* Mutant of merge_run: the splice leaves the last element of the run.
merge_run_short(vv, equal_since_idx, end_idx) ==
    LET equal_until == At(vv, end_idx - 1).end
        first == At(vv, equal_since_idx)
    IN  SubSeq(vv, 1, equal_since_idx)
        \o <<Elem(first.start, equal_until, first.data)>>
        \o SubSeq(vv, end_idx, Len(vv))

\* Make the elements equal_since_idx..end_idx (exclusive) one element that
\* covers the entire range.
merge_run(vv, equal_since_idx, end_idx) ==
    LET equal_until == At(vv, end_idx - 1).end
        first == At(vv, equal_since_idx)
    IN  SubSeq(vv, 1, equal_since_idx)
        \o <<Elem(first.start, equal_until, first.data)>>
        \o SubSeq(vv, end_idx + 1, Len(vv))

\* Mutant of adjust_end: end_idx is left where it was.
adjust_end_not(end_idx, removed_elems) == end_idx

\* `end_idx -= removed_elems`, because the merge made the list shorter.
adjust_end(end_idx, removed_elems) == end_idx - removed_elems

\* Mutant of first_index: the index is not moved to the new 2nd element.
first_index_unmoved(idx, split) == idx

\* The first index of the slice, after the split at `offset`.
first_index(idx, split) == IF split THEN idx + 1 ELSE idx

\* The scan's variables when it starts at first_idx.  Besides the loop's own
\* (v, equal_since_idx, smc = successful_merge_count, end_idx) the record
\* keeps what the loop has done: removed (elements deleted), misses (runs of
\* one element closed), iters (iterations), low (the lowest smc seen),
\* merged (for each merge, in order: the run of elements it replaced, the
\* element it left, and smc when the run was closed), trace (for each
\* iteration: smc before and after it, the length of the run it closed, 0
\* when it closed none, and the number of elements it deleted).
scan_start(vv, first_idx) ==
    [v |-> vv, equal_since_idx |-> first_idx, smc |-> InitialMergeCount,
     end_idx |-> first_idx, panic |-> "none", removed |-> 0, misses |-> 0,
     iters |-> 0, low |-> InitialMergeCount, merged |-> <<>>, trace |-> <<>>]

\* One iteration of the loop, from `end_idx += 1` on.
scan_step(st, done) ==
    LET e1 == st.end_idx + 1
        close == budget_left(st.smc)
                 /\ run_closes(st.v, done, e1, st.equal_since_idx)
        removed_elems == e1 - st.equal_since_idx - 1
        hit == close /\ removed_elems > 0
        miss == close /\ ~(removed_elems > 0)
        smc2 == IF hit THEN st.smc + removed_elems
                ELSE IF miss THEN st.smc - 1 ELSE st.smc
        e2 == IF hit THEN adjust_end(e1, removed_elems) ELSE e1
        v2 == IF hit THEN merge_run(st.v, st.equal_since_idx, e1) ELSE st.v
    IN  [v |-> v2,
         equal_since_idx |-> IF close THEN e2 ELSE st.equal_since_idx,
         smc |-> smc2,
         end_idx |-> e2,
         panic |-> "none",
         removed |-> IF hit THEN st.removed + removed_elems ELSE st.removed,
         misses |-> IF miss THEN st.misses + 1 ELSE st.misses,
         iters |-> st.iters + 1,
         low |-> IF smc2 < st.low THEN smc2 ELSE st.low,
         merged |-> IF hit
                    THEN Append(st.merged,
                                [run |-> SubSeq(st.v, st.equal_since_idx + 1, e1),
                                 into |-> At(v2, st.equal_since_idx),
                                 smc |-> st.smc])
                    ELSE st.merged,
         trace |-> Append(st.trace,
                          [before |-> st.smc, after |-> smc2,
                           run |-> IF close THEN e1 - st.equal_since_idx ELSE 0,
                           removed |-> IF hit THEN removed_elems ELSE 0])]

\* The scan loop.
RECURSIVE scan(_, _)
scan(st, end) ==
    IF ~(st.end_idx < Len(st.v))
    THEN [st EXCEPT !.panic = "index"]
    ELSE
    LET done == scan_done(At(st.v, st.end_idx), end)
        e1 == st.end_idx + 1
    IN  IF ~scan_assert(done, e1, Len(st.v))
        THEN [st EXCEPT !.panic = "debug_assert", !.end_idx = e1,
                        !.iters = @ + 1]
        ELSE IF budget_left(st.smc) /\ ~done /\ ~(e1 < Len(st.v))
        THEN [st EXCEPT !.panic = "index", !.end_idx = e1, !.iters = @ + 1]
        ELSE IF done THEN scan_step(st, done)
        ELSE scan(scan_step(st, done), end)

\* A call split_index(index, at) as iter_mut makes it: the element at index
\* when the call is made (none when the index is out of range), the split
\* offset, and whether the element was split.
split_call(vv, index, at, res) ==
    [elem |-> IF index >= 0 /\ index < Len(vv) THEN <<At(vv, index)>> ELSE <<>>,
     at |-> at, split |-> res.split]

\* What iter_mut did when it yields nothing or panics before the scan.
no_scan(vv, panic, located) ==
    [v |-> vv, panic |-> panic, located |-> located,
     first_idx |-> 0, end_idx |-> -1,
     splits |-> 0, removed |-> 0, misses |-> 0, iters |-> 0,
     smc |-> InitialMergeCount, low |-> InitialMergeCount, merged |-> <<>>,
     trace |-> <<>>, split_calls |-> <<>>]

\* iter_mut(offset, len): the vector it leaves, how it ended, whether
\* find_offset was called, and the slice first_idx..=end_idx it yields.
iter_mut(vv, offset, len) ==
    IF empty_query(len)
    THEN no_scan(vv, "none", FALSE)
    ELSE LET fo == find_offset(vv, offset)
         IN  IF fo.panic # "none"
             THEN no_scan(vv, fo.panic, TRUE)
             ELSE
         LET s1 == split_index(vv, fo.idx, offset)
             c1 == split_call(vv, fo.idx, offset, s1)
         IN  IF s1.panic # "none"
             THEN [no_scan(vv, s1.panic, TRUE) EXCEPT !.split_calls = <<c1>>]
             ELSE
         LET first_idx == first_index(fo.idx, s1.split)
             sc == scan(scan_start(s1.v, first_idx), offset + len)
             end_idx == sc.end_idx - 1
             n1 == IF s1.split THEN 1 ELSE 0
         IN  IF sc.panic # "none"
             THEN [v |-> sc.v, panic |-> sc.panic, located |-> TRUE,
                   first_idx |-> 0, end_idx |-> -1,
                   splits |-> n1, removed |-> sc.removed,
                   misses |-> sc.misses, iters |-> sc.iters,
                   smc |-> sc.smc, low |-> sc.low, merged |-> sc.merged,
                   trace |-> sc.trace, split_calls |-> <<c1>>]
             ELSE
         LET s2 == split_index(sc.v, end_idx, offset + len)
             ok == s2.panic = "none"
         IN  [v |-> s2.v, panic |-> s2.panic, located |-> TRUE,
              first_idx |-> IF ok THEN first_idx ELSE 0,
              end_idx |-> IF ok THEN end_idx ELSE -1,
              splits |-> n1 + (IF s2.split THEN 1 ELSE 0),
              removed |-> sc.removed, misses |-> sc.misses,
              iters |-> sc.iters, smc |-> sc.smc, low |-> sc.low,
              merged |-> sc.merged, trace |-> sc.trace,
              split_calls |-> <<c1, split_call(sc.v, end_idx, offset + len, s2)>>]

\* The elements of the yielded slice &mut v[first_idx..=end_idx].
slice(r) == SubSeq(r.v, r.first_idx + 1, r.end_idx + 1)

\* Mutant of written: when the writes are done and the yielded elements all
\* hold one value, they are made one element.
written_coalesced(r, f) ==
    LET w == [i \in 1..Len(r.v) |->
                IF r.first_idx + 1 <= i /\ i <= r.end_idx + 1
                THEN [r.v[i] EXCEPT !.data = f[@]]
                ELSE r.v[i]]
        s == SubSeq(w, r.first_idx + 1, r.end_idx + 1)
    IN  IF Len(s) >= 2 /\ \A i \in 1..Len(s) : s[i].data = s[1].data
        THEN SubSeq(w, 1, r.first_idx)
             \o <<Elem(s[1].start, s[Len(s)].end, s[1].data)>>
             \o SubSeq(w, r.end_idx + 2, Len(w))
        ELSE w

\* The vector after the caller replaced each yielded value x by f[x].
written(r, f) ==
    [i \in 1..Len(r.v) |->
        IF r.first_idx + 1 <= i /\ i <= r.end_idx + 1
        THEN [r.v[i] EXCEPT !.data = f[@]]
        ELSE r.v[i]]

\* iter_mut_all: every element's value, with neither split nor merge.
written_all(vv, f) == [i \in 1..Len(vv) |-> [vv[i] EXCEPT !.data = f[@]]]

-----------------------------------------------------------------------------
(* The state machine: a caller that owns one map *)

Call(op, offset, len, f, panic, located, values, elems, preLen, r) ==
    [op |-> op, offset |-> offset, len |-> len, f |-> f,
     panic |-> panic, located |-> located,
     values |-> values,     \* read: the values yielded
     elems |-> elems,       \* mutate: the elements yielded, before the writes
     preLen |-> preLen,     \* the number of elements before the call
     splits |-> r.splits, removed |-> r.removed, misses |-> r.misses,
     iters |-> r.iters, smc |-> r.smc, low |-> r.low, merged |-> r.merged,
     trace |-> r.trace, split_calls |-> r.split_calls,
     first_idx |-> r.first_idx]

\* Nothing to report: no call is in progress.
NoCall(op, size) ==
    Call(op, 0, size, <<>>, "none", FALSE, <<>>, <<>>, 0,
         no_scan(<<>>, "none", FALSE))

\* No syntax tree: the state of `ast` wherever only the RangeMap is used.
NoAst == [phase |-> "none", tree |-> <<>>, arena |-> <<>>,
          old_tree |-> <<>>, old_arena |-> <<>>, inserted |-> 0]

InitWith(size, init) ==
    /\ ast = NoAst
    /\ total_size = size
    /\ v = new(size, init)
    /\ shadow = [b \in 0..(size - 1) |-> init]
    /\ last = NoCall("new", size)

Init ==
    /\ \E size \in Sizes, init \in Values : InitWith(size, init)
    /\ script = 0

\* The map is not borrowed by an iterator, and no call has panicked.
Free == last.op \in {"new", "idle"}

\* map.iter(offset, len), collected.
Read(offset, len) ==
    LET r == iter(v, offset, len)
    IN  /\ Free
        /\ last' = Call("read", offset, len, <<>>, r.panic, r.located,
                        r.yielded, <<>>, Len(v), no_scan(v, "none", FALSE))
        /\ UNCHANGED <<v, total_size, shadow, script, ast>>

\* for x in map.iter_mut(offset, len) { *x = f[*x] }
MutateCall(offset, len, f) ==
    LET r == iter_mut(v, offset, len)
    IN  /\ Free
        /\ v' = IF r.panic # "none" THEN r.v ELSE written(r, f)
        /\ shadow' = IF r.panic # "none" THEN shadow
                     ELSE [b \in DOMAIN shadow |->
                             IF offset <= b /\ b < offset + len
                             THEN f[shadow[b]] ELSE shadow[b]]
        /\ last' = Call("mutate", offset, len, f, r.panic, r.located,
                        <<>>, slice(r), Len(v), r)
        /\ UNCHANGED <<total_size, ast>>

Mutate(offset, len, f) == MutateCall(offset, len, f) /\ UNCHANGED script

\* for x in map.iter_mut_all() { *x = f[*x] }
MutateAll(f) ==
    /\ Free
    /\ v' = written_all(v, f)
    /\ shadow' = [b \in DOMAIN shadow |-> f[shadow[b]]]
    /\ last' = Call("mutate_all", 0, total_size, f, "none", FALSE,
                    <<>>, v, Len(v), no_scan(v, "none", FALSE))
    /\ UNCHANGED <<total_size, script, ast>>

\* The iterator is dropped and its borrow of the map ends: the next call can
\* be made.  A call that panicked is never followed by another.
Drop ==
    /\ ~Free
    /\ last.panic = "none"
    /\ last' = NoCall("idle", total_size)
    /\ UNCHANGED <<v, total_size, shadow, script, ast>>

Next ==
    \/ \E offset \in Offsets, len \in Lens : Read(offset, len)
    \/ \E offset \in Offsets, len \in Lens, f \in Writes : Mutate(offset, len, f)
    \/ \E f \in Writes : MutateAll(f)
    \/ Drop

Spec == Init /\ [][Next]_vars

-----------------------------------------------------------------------------
(* The test tests::gaps: a map of 20 bytes of -1 and five iter_mut calls,  *)
(* with the map read byte by byte (to_vec) in between.                     *)

GapsSize == 20

GapsValues == {-1, 19, 23, 42, 43}

GapsConst(c) == [x \in GapsValues |-> c]

\* The calls of the test, in order: the window and what the loop body does
\* to each value.
GapsCalls ==
    << [offset |-> 11, len |-> 1, f |-> GapsConst(42)],
       [offset |-> 15, len |-> 1, f |-> GapsConst(43)],
       [offset |-> 10, len |-> 10,
        f |-> [x \in GapsValues |-> IF x < 42 THEN 23 ELSE x]],
       [offset |-> 15, len |-> 5, f |-> GapsConst(19)],
       [offset |-> 15, len |-> 5, f |-> [x \in GapsValues |-> x]] >>

InitGaps ==
    /\ InitWith(GapsSize, -1)
    /\ script = 0

\* The next iter_mut loop of the test.
GapsStep ==
    /\ script < Len(GapsCalls)
    /\ LET c == GapsCalls[script + 1]
       IN  MutateCall(c.offset, c.len, c.f)
    /\ script' = script + 1

\* One element of to_vec: map.iter(i, 1).next().
GapsRead(i) == Read(i, 1)

NextGaps ==
    \/ GapsStep
    \/ \E i \in 0..(GapsSize - 1) : GapsRead(i)
    \/ Drop

SpecGaps == InitGaps /\ [][NextGaps]_vars

-----------------------------------------------------------------------------
(* A caller that initializes a map one byte at a time: new(n, init), then   *)
(* iter_mut(i, 1) writing one value c for i = 0, 1, ..., n-1, and at last   *)
(* one iter_mut(0, n) that writes nothing.  `script` is the number of calls *)
(* made.                                                                    *)

InitFill ==
    /\ \E size \in Sizes, init \in Values : InitWith(size, init)
    /\ script = 0

\* for x in map.iter_mut(i, 1) { *x = c }, for the next byte i.
FillStep ==
    /\ script < total_size
    /\ \E c \in Values :
          /\ (script > 0) => (c = shadow[0])
          /\ MutateCall(script, 1, Const(c))
    /\ script' = script + 1

\* for x in map.iter_mut(0, n) { }, when every byte has been written.
FillSweep ==
    /\ script = total_size
    /\ MutateCall(0, total_size, Id)
    /\ script' = script + 1

NextFill ==
    \/ FillStep
    \/ FillSweep
    \/ Drop

SpecFill == InitFill /\ [][NextFill]_vars

-----------------------------------------------------------------------------
(* The iterator of iter_mut, one value at a time: the call iter_mut(offset, *)
(* len) computes the slice and returns the iterator, the caller takes       *)
(* values from it one by one, writing f[x] over each x it is given, and     *)
(* may drop the iterator when it likes.  `script` is the number of values   *)
(* taken from the iterator that is alive.                                   *)

\* Mutant of write_one: an element that is given the value of the element
\* before it is joined to it.
write_one_joining(vv, idx, f) ==
    LET w == [vv EXCEPT ![idx + 1].data = f[@]]
    IN  IF idx >= 1 /\ w[idx].data = w[idx + 1].data
        THEN SubSeq(w, 1, idx - 1)
             \o <<Elem(w[idx].start, w[idx + 1].end, w[idx].data)>>
             \o SubSeq(w, idx + 2, Len(w))
        ELSE w

\* The caller writes f[x] through the reference to the data x of v[idx].
write_one(vv, idx, f) == [vv EXCEPT ![idx + 1].data = f[@]]

\* let it = map.iter_mut(offset, len);
IterMutBegin(offset, len, f) ==
    LET r == iter_mut(v, offset, len)
    IN  /\ Free
        /\ v' = r.v
        /\ last' = Call("iter_mut", offset, len, f, r.panic, r.located,
                        <<>>, slice(r), Len(v), r)
        /\ script' = 0
        /\ UNCHANGED <<total_size, shadow, ast>>

\* if let Some(x) = it.next() { *x = f[*x] }
IterMutNext ==
    /\ last.op = "iter_mut"
    /\ last.panic = "none"
    /\ script < Len(last.elems)
    /\ LET idx == last.first_idx + script
           elem == At(v, idx)
       IN  /\ v' = write_one(v, idx, last.f)
           /\ shadow' = [b \in DOMAIN shadow |->
                            IF Contains(elem, b)
                            THEN last.f[shadow[b]] ELSE shadow[b]]
    /\ script' = script + 1
    /\ UNCHANGED <<total_size, last, ast>>

\* drop(it), after any number of values.
IterMutDrop ==
    /\ last.op = "iter_mut"
    /\ last.panic = "none"
    /\ last' = NoCall("idle", total_size)
    /\ script' = 0
    /\ UNCHANGED <<v, total_size, shadow, ast>>

NextPartial ==
    \/ \E offset \in Offsets, len \in Lens, f \in Writes :
          IterMutBegin(offset, len, f)
    \/ IterMutNext
    \/ IterMutDrop

SpecPartial == Init /\ [][NextPartial]_vars

-----------------------------------------------------------------------------
(* AstIdMap (src/crates/hir_expand/src/ast_id_map.rs).  A syntax tree is   *)
(* the sequence of its nodes in document (preorder) order, each with its   *)
(* depth, its kind and a name that tells it apart; the root is node 1.     *)
(* The arena is the sequence of the nodes that were given an id, in        *)
(* allocation order: the node at arena[i] has the id i - 1.                *)

\* Largest tree given to from_source before an edit.
MaxNodes == 4

\* ast::Item, ast::BlockExpr, and every other kind of node.
AstKinds == {"Item", "BlockExpr", "Other"}

Node(name, depth, kind) == [name |-> name, depth |-> depth, kind |-> kind]

\* The last position of the subtree of the node at position i.
RECURSIVE subtree_end(_, _, _)
subtree_end(tree, i, j) ==
    IF j < Len(tree) /\ tree[j + 1].depth > tree[i].depth
    THEN subtree_end(tree, i, j + 1)
    ELSE j

\* node.children(): the positions of the children of the node at i, in order.
children(tree, i) ==
    SelectSeq([k \in 1..(subtree_end(tree, i, i) - i) |-> i + k],
              LAMBDA k : tree[k].depth = tree[i].depth + 1)

\* The closure from_source gives to bdfs: an Item or a BlockExpr is given
\* an id (and the closure returns true), any other node is not.
allocates(node) == node.kind \in {"Item", "BlockExpr"}

\* node.preorder() from position pos to the end `stop` of the subtree: a
\* node that is given an id goes to the arena, its children go to
\* next_layer and its subtree is skipped.
RECURSIVE preorder(_, _, _, _)
preorder(tree, pos, stop, acc) ==
    IF pos > stop THEN acc
    ELSE IF allocates(tree[pos])
    THEN preorder(tree, subtree_end(tree, pos, pos) + 1, stop,
                  [arena |-> Append(acc.arena, tree[pos].name),
                   next_layer |-> acc.next_layer \o children(tree, pos)])
    ELSE preorder(tree, pos + 1, stop, acc)

\* curr_layer.drain(..).for_each(...)
RECURSIVE drain(_, _, _)
drain(tree, curr_layer, acc) ==
    IF curr_layer = <<>> THEN acc
    ELSE LET node == Head(curr_layer)
         IN  drain(tree, Tail(curr_layer),
                   preorder(tree, node, subtree_end(tree, node, node), acc))

\* while !curr_layer.is_empty() { ...; swap(curr_layer, next_layer) }
RECURSIVE bdfs_loop(_, _, _)
bdfs_loop(tree, curr_layer, arena) ==
    IF curr_layer = <<>> THEN arena
    ELSE LET r == drain(tree, curr_layer,
                        [arena |-> arena, next_layer |-> <<>>])
         IN  bdfs_loop(tree, r.next_layer, r.arena)

\* Mutant of bdfs: the nodes are given their ids depth-first, in document
\* order.
bdfs_depth_first(tree) ==
    LET alloc == SelectSeq(tree, allocates)
    IN  [i \in 1..Len(alloc) |-> alloc[i].name]

\* bdfs from the root, with from_source's closure: the arena it fills.
bdfs(tree) == bdfs_loop(tree, <<1>>, <<>>)

\* AstIdMap::from_source: the arena (the map is its inverse).
from_source(tree) == bdfs(tree)

\* erased_ast_id: the id of the node of that name (the map's entry).
erased_ast_id(arena, name) == (CHOOSE i \in 1..Len(arena) : arena[i] = name) - 1

\* The depths of a tree of n nodes in document order.
Depths(n) ==
    {d \in [1..n -> 0..(n - 1)] :
        /\ d[1] = 0
        /\ \A i \in 2..n : 1 <= d[i] /\ d[i] <= d[i - 1] + 1}

\* The trees of n nodes; node i has the name i.
Trees(n) ==
    {[i \in 1..n |-> Node(i, d[i], k[i])] :
        d \in Depths(n), k \in [1..n -> AstKinds]}

\* The tree with a new leaf, named 0, put at position p.
with_leaf(tree, p, depth, kind) ==
    SubSeq(tree, 1, p - 1) \o <<Node(0, depth, kind)>>
        \o SubSeq(tree, p, Len(tree))

InitAst ==
    /\ \E n \in 1..MaxNodes : \E t \in Trees(n) :
          ast = [NoAst EXCEPT !.phase = "parsed", !.tree = t]
    /\ total_size = 0
    /\ v = <<>>
    /\ shadow = <<>>
    /\ last = NoCall("new", 0)
    /\ script = 0

\* AstIdMap::from_source(root)
AstFromSource ==
    /\ ast.phase = "parsed"
    /\ ast' = [ast EXCEPT !.phase = "mapped", !.arena = from_source(ast.tree)]
    /\ UNCHANGED <<v, total_size, shadow, last, script>>

\* The file is edited, a new leaf node is added at position p, and
\* from_source is run on the new tree.
AstEdit(p, depth, kind) ==
    /\ ast.phase = "mapped"
    /\ p \in 2..(Len(ast.tree) + 1)
    /\ 1 <= depth
    /\ depth <= ast.tree[p - 1].depth + 1
    /\ (p <= Len(ast.tree)) => (ast.tree[p].depth <= depth)
    /\ LET t == with_leaf(ast.tree, p, depth, kind)
       IN  ast' = [phase |-> "remapped", tree |-> t,
                   arena |-> from_source(t),
                   old_tree |-> ast.tree, old_arena |-> ast.arena,
                   inserted |-> p]
    /\ UNCHANGED <<v, total_size, shadow, last, script>>

NextAst ==
    \/ AstFromSource
    \/ \E p \in 2..(MaxNodes + 1), depth \in 1..MaxNodes, kind \in AstKinds :
          AstEdit(p, depth, kind)

SpecAst == InitAst /\ [][NextAst]_vars

-----------------------------------------------------------------------------
(* Properties *)

\* The last call was a mutate that returned its sequence of values.
Mutated == last.op = "mutate" /\ last.panic = "none"

\* The window of the last call lies inside the address space.
InSpace == last.offset + last.len <= total_size

\* The caller of the last mutate left every yielded value as it was.
NoChange ==
    \A i \in 1..Len(last.elems) : last.f[last.elems[i].data] = last.elems[i].data

\* The bytes of the address space.
Bytes == 0..(total_size - 1)

\* The bytes of the window [offset, offset+len).
Window(offset, len) == {b \in Bytes : offset <= b /\ b < offset + len}

\* The stored segments are non-empty, sorted, start at 0, each starts where
\* the previous one ends, and the last ends at size; none when size is 0.
Tiling(vv, size) ==
    /\ \A i \in 1..Len(vv) : vv[i].start < vv[i].end
    /\ \A i \in 1..(Len(vv) - 1) :
          /\ vv[i].start < vv[i + 1].start
          /\ vv[i + 1].start = vv[i].end
    /\ (size = 0) => (Len(vv) = 0)
    /\ (size > 0) => /\ Len(vv) > 0
                     /\ vv[1].start = 0
                     /\ vv[Len(vv)].end = size

\* C1. Tiling invariant: after new and after any sequence of valid mutate
\* calls (and reads), whatever the caller writes, the stored segments are
\* non-empty, sorted strictly ascending, contiguous from 0 to total_size;
\* a map of size 0 has no segment.
C1_Tiling == (last.panic = "none") => Tiling(v, total_size)

\* A mutate that split at both ends of its window and merged a run.
C1_Witness ==
    /\ Mutated
    /\ last.len > 0
    /\ last.splits = 2
    /\ last.removed > 0
    /\ ~NoChange

\* C2. Read correctness: for every byte b of the address space read(b, 1)
\* yields exactly one value, the one the most recent write covering b left
\* there (the initial value if none did); and right after a write of c via
\* mutate(o, l) every byte of [o, o+l) reads c.
C2_ReadCorrect ==
    (last.panic = "none") =>
        /\ \A b \in Bytes :
              iter(v, b, 1) =
                  [panic |-> "none", located |-> TRUE, yielded |-> <<shadow[b]>>]
        /\ \A c \in Values :
              (Mutated /\ InSpace /\ last.f = Const(c)) =>
                  \A b \in Window(last.offset, last.len) :
                      iter(v, b, 1).yielded = <<c>>

\* A uniform write into the middle of a map that holds both values.
C2_Witness ==
    /\ Mutated
    /\ last.len > 0
    /\ last.f = Const(42)
    /\ last.offset > 0
    /\ last.offset + last.len < total_size
    /\ shadow[0] = 42
    /\ shadow[total_size - 1] = -1
    /\ \E i \in 1..Len(last.elems) : last.elems[i].data = -1

\* The value of the segment of vv that holds byte b.
ValueAt(vv, b) ==
    LET i == CHOOSE i \in 1..Len(vv) : vv[i].start <= b /\ b < vv[i].end
    IN  vv[i].data

\* The range of a segment.
RangeOf(elem) == <<elem.start, elem.end>>

\* C3. Window containment of mutate: for a valid mutate(offset, len) with
\* len > 0 the segments yielded are consecutive segments of the store, each
\* inside [offset, offset+len), together covering exactly the window; and
\* the call, with the caller's writes, changes the value of no byte outside
\* the window.
C3_WindowContainment ==
    [][(last'.op = "mutate" /\ last'.len > 0
            /\ last'.offset + last'.len <= total_size) =>
        LET y == last'.elems
            n == Len(y)
            lo == last'.offset
            hi == last'.offset + last'.len
        IN  /\ last'.panic = "none"
            /\ n > 0
            /\ y[1].start = lo
            /\ y[n].end = hi
            /\ \A i \in 1..n : lo <= y[i].start /\ y[i].start < y[i].end
                               /\ y[i].end <= hi
            /\ \A i \in 1..(n - 1) : y[i + 1].start = y[i].end
            /\ \E k \in 0..(Len(v') - n) :
                  \A i \in 1..n : RangeOf(v'[k + i]) = RangeOf(y[i])
            /\ \A b \in Bytes \ Window(lo, last'.len) :
                  ValueAt(v', b) = ValueAt(v, b)
      ]_vars

\* A mutate whose window starts and ends inside segments, yields more than
\* one segment and changes a value, with segments left on both sides.
C3_Witness ==
    /\ Mutated
    /\ last.len > 0
    /\ last.splits = 2
    /\ Len(last.elems) >= 2
    /\ ~NoChange
    /\ ValueAt(v, 0) # ValueAt(v, last.offset)
    /\ ValueAt(v, total_size - 1) # ValueAt(v, last.offset)

\* C4. Zero-length no-op: read(o, 0) and mutate(o, 0), for every o (also
\* o = total_size, also on a map of size 0), yield nothing, do not call
\* find_offset, do not panic, split and merge nothing and leave the vector
\* as it is.
C4_ZeroLength ==
    [][(last'.op \in {"read", "mutate"} /\ last'.len = 0) =>
        /\ last'.panic = "none"
        /\ ~last'.located
        /\ last'.values = <<>>
        /\ last'.elems = <<>>
        /\ last'.splits = 0
        /\ last'.removed = 0
        /\ v' = v
      ]_vars

\* A zero-length mutate at offset = total_size of a map with several
\* segments, with a write the caller would have made.
C4_Witness ==
    /\ last.op = "mutate"
    /\ last.len = 0
    /\ last.offset = total_size
    /\ Len(v) >= 3
    /\ last.f = Const(42)
    /\ \E b \in Bytes : ValueAt(v, b) = -1

\* The values of the segments of vv that intersect [offset, offset+len),
\* in vector order.
RECURSIVE Intersecting(_, _, _)
Intersecting(vv, offset, len) ==
    IF vv = <<>> THEN <<>>
    ELSE (IF Head(vv).start < offset + len /\ offset < Head(vv).end
          THEN <<Head(vv).data>> ELSE <<>>)
         \o Intersecting(Tail(vv), offset, len)

\* C5. Read view: read(offset, len) with len > 0 and offset + len <=
\* total_size yields exactly the values of the segments that intersect the
\* window, one per segment, in ascending order, boundary segments whole, and
\* leaves the vector unchanged.
C5_ReadView ==
    [][(last'.op = "read" /\ last'.len > 0
            /\ last'.offset + last'.len <= total_size) =>
        /\ last'.panic = "none"
        /\ last'.values = Intersecting(v, last'.offset, last'.len)
        /\ v' = v
      ]_vars

\* A read whose window starts and ends strictly inside segments and takes
\* in three of them.
C5_Witness ==
    /\ last.op = "read"
    /\ last.panic = "none"
    /\ Len(last.values) = 3
    /\ \E i \in 1..Len(v) :
          v[i].start < last.offset /\ last.offset < v[i].end
    /\ \E i \in 1..Len(v) :
          v[i].start < last.offset + last.len /\ last.offset + last.len < v[i].end

\* The boundaries of the window [offset, offset+len) that fall strictly
\* inside a segment of vv; none for an empty window.
Cuts(vv, offset, len) ==
    IF len = 0 THEN {}
    ELSE {x \in {offset, offset + len} :
            \E i \in 1..Len(vv) : vv[i].start < x /\ x < vv[i].end}

\* C6 as stated: a mutate in which the caller changes no value leaves no
\* more segments than there were before the call.
C6_NoGrowth == (Mutated /\ NoChange) => Len(v) <= last.preLen

\* C6, amended: a mutate in which the caller changes no value leaves at most
\* as many segments as before the call plus one for each boundary of the
\* window that falls strictly inside a segment; with both boundaries on
\* segment boundaries, or an empty window, the count does not grow.
C6_GrowthByCuts ==
    [][(last'.op = "mutate" /\ last'.panic = "none" /\ NoChange') =>
        Len(v') <= Len(v) + Cardinality(Cuts(v, last'.offset, last'.len))
      ]_vars

\* A mutate that changes no value, finds both boundaries of its window on
\* segment boundaries and merges a run.
C6_Witness ==
    /\ Mutated
    /\ NoChange
    /\ last.len > 0
    /\ last.splits = 0
    /\ last.removed > 0
    /\ Len(v) < last.preLen

\* C7. A mutate(o, l) in which the caller changed no value is stable on
\* repetition: the identical call made again splits nothing, merges nothing
\* and leaves the whole vector as the first call left it.
C7_NoopStable ==
    (Mutated /\ NoChange) =>
        LET r == iter_mut(v, last.offset, last.len)
        IN  /\ r.panic = "none"
            /\ r.splits = 0
            /\ r.removed = 0
            /\ r.v = v
            /\ written(r, last.f) = v

\* A first mutate that changed no value but split at a boundary, closed a
\* run of one segment and merged another run.
C7_Witness ==
    /\ Mutated
    /\ NoChange
    /\ last.splits > 0
    /\ last.misses > 0
    /\ last.removed > 0

\* C9. Out-of-bounds mutate is detected: a mutate(offset, len) with len > 0
\* and offset + len > total_size (so also every offset >= total_size) ends
\* in a failed debug assertion and yields no value.
C9_MutateOutOfBounds ==
    (last.op = "mutate" /\ last.len > 0 /\ last.offset + last.len > total_size)
        => (last.panic = "debug_assert" /\ last.elems = <<>>)

\* A mutate that starts inside the address space and ends outside it: the
\* split at its start is made, the scan runs off the vector.
C9_Witness ==
    /\ last.op = "mutate"
    /\ last.offset < total_size
    /\ last.offset + last.len > total_size
    /\ last.splits = 1
    /\ last.iters >= 2
    /\ last.panic = "debug_assert"

\* C10 as stated: a read(offset, len) with len > 0 and offset + len >
\* total_size ends in a failed debug assertion and yields no value.
C10_ReadOutOfBounds ==
    (last.op = "read" /\ last.len > 0 /\ last.offset + last.len > total_size)
        => (last.panic = "debug_assert" /\ last.values = <<>>)

\* to_vec(map, 0, GapsSize): the value read at every byte, in order.
ToVec == [i \in 1..total_size |-> iter(v, i - 1, 1).yielded]

\* The bytes of the 20-byte map after the third and after the fourth call.
GapsThird ==
    [i \in 1..GapsSize |->
        IF i - 1 < 10 THEN <<-1>>
        ELSE IF i - 1 = 11 THEN <<42>>
        ELSE IF i - 1 = 15 THEN <<43>>
        ELSE <<23>>]

GapsFourth ==
    [i \in 1..GapsSize |->
        IF i - 1 < 10 THEN <<-1>>
        ELSE IF i - 1 = 11 THEN <<42>>
        ELSE IF i - 1 >= 15 THEN <<19>>
        ELSE <<23>>]

\* C8. The scenario of tests::gaps: after the writes of 42 at 11 and 43 at
\* 15 there are 5 segments; after writing 23 over the values below 42 of
\* [10, 20) there are 6, bytes 10, 12-14, 16-19 read 23, byte 11 reads 42,
\* byte 15 reads 43; after writing 19 over [15, 20) there are still 6 and
\* bytes 15-19 read 19; after a mutate(15, 5) that changes nothing there are
\* 5, [15, 20) is one segment of 19, and every byte reads as before.
C8_Gaps ==
    /\ (script = 2) => Len(v) = 5
    /\ (script = 3) => (Len(v) = 6 /\ ToVec = GapsThird)
    /\ (script = 4) => (Len(v) = 6 /\ ToVec = GapsFourth)
    /\ (script = 5) => /\ Len(v) = 5
                       /\ ToVec = GapsFourth
                       /\ v[Len(v)] = Elem(15, 20, 19)

\* The last call of the test has just merged the two segments of [15, 20).
C8_Witness ==
    /\ script = 5
    /\ last.op = "mutate"
    /\ last.removed = 1
    /\ last.preLen = 6

\* Node a is a proper ancestor of node b (positions in the tree).
ProperAncestor(tree, a, b) ==
    a < b /\ \A k \in (a + 1)..b : tree[k].depth > tree[a].depth

\* The nesting level of node n: how many of its proper ancestors have an id.
Level(tree, n) ==
    Cardinality({a \in 1..Len(tree) :
                    allocates(tree[a]) /\ ProperAncestor(tree, a, n)})

\* The names of the nodes of the tree that are Items or BlockExprs.
IdBearing(tree) ==
    {tree[i].name : i \in {k \in 1..Len(tree) : allocates(tree[k])}}

\* The arena holds every Item and BlockExpr of the tree once, nothing else.
ArenaOf(arena, tree) ==
    /\ {arena[i] : i \in 1..Len(arena)} = IdBearing(tree)
    /\ \A i, j \in 1..Len(arena) : (arena[i] = arena[j]) => (i = j)

\* C11. AstIdMap id ordering: every Item and BlockExpr of the tree gets one
\* id, and of two such nodes the proper ancestor has the lower id; hence,
\* when a new Item or BlockExpr is added inside a node that has an id, that
\* node and every node with an id at a nesting level shallower than the new
\* node's keep their ids.
C11_AstIdOrder ==
    /\ (ast.phase \in {"mapped", "remapped"}) =>
          /\ ArenaOf(ast.arena, ast.tree)
          /\ \A a, b \in 1..Len(ast.tree) :
                (allocates(ast.tree[a]) /\ allocates(ast.tree[b])
                    /\ ProperAncestor(ast.tree, a, b)) =>
                  erased_ast_id(ast.arena, ast.tree[a].name)
                      < erased_ast_id(ast.arena, ast.tree[b].name)
    /\ (ast.phase = "remapped" /\ allocates(ast.tree[ast.inserted])
            /\ Level(ast.tree, ast.inserted) > 0) =>
          \A n \in 1..Len(ast.tree) :
              (n # ast.inserted /\ allocates(ast.tree[n])
                  /\ Level(ast.tree, n) < Level(ast.tree, ast.inserted)) =>
                erased_ast_id(ast.arena, ast.tree[n].name)
                    = erased_ast_id(ast.old_arena, ast.tree[n].name)

\* A new item was added inside an item that is followed by another item of
\* its level; an item nested at the new node's level or deeper changed id.
C11_Witness ==
    /\ ast.phase = "remapped"
    /\ allocates(ast.tree[ast.inserted])
    /\ \E x, y \in 1..Len(ast.tree) :
          /\ allocates(ast.tree[x]) /\ allocates(ast.tree[y])
          /\ ProperAncestor(ast.tree, x, ast.inserted)
          /\ y > ast.inserted
          /\ Level(ast.tree, y) = Level(ast.tree, x)
    /\ \E n \in 1..Len(ast.tree) :
          /\ n # ast.inserted
          /\ allocates(ast.tree[n])
          /\ erased_ast_id(ast.arena, ast.tree[n].name)
                # erased_ast_id(ast.old_arena, ast.tree[n].name)

\* A merge replaced a run of two or more adjacent elements of equal data by
\* one element with that data, from the start of the first to the end of
\* the last.
SoundMerge(m) ==
    LET n == Len(m.run)
    IN  /\ n >= 2
        /\ \A i \in 1..n : m.run[i].data = m.into.data
        /\ \A i \in 1..(n - 1) : m.run[i + 1].start = m.run[i].end
        /\ m.into.start = m.run[1].start
        /\ m.into.end = m.run[n].end

\* C12. Merge soundness: every merge of a mutate replaces a run of adjacent
\* segments of equal values by one segment of that value over the union of
\* their ranges; and a mutate in which the caller leaves every yielded value
\* as it is (writes nothing, or writes the value already there) changes the
\* value read at no byte of the address space.
C12_MergeSound ==
    [][(last'.op = "mutate") =>
        /\ \A i \in 1..Len(last'.merged) : SoundMerge(last'.merged[i])
        /\ (last'.panic = "none" /\ NoChange') =>
              \A b \in Bytes : ValueAt(v', b) = ValueAt(v, b)
      ]_vars

\* A mutate that rewrote the value already there, after merging a run, in a
\* map that holds both values.
C12_Witness ==
    /\ Mutated
    /\ NoChange
    /\ last.f = Const(42)
    /\ Len(last.merged) >= 1
    /\ \E b \in Bytes : ValueAt(v, b) = -1

\* The first three runs of equal adjacent values of w are single elements.
ThreeSingleRuns(w) ==
    /\ Len(w) >= 3
    /\ w[1] # w[2]
    /\ w[2] # w[3]
    /\ (Len(w) >= 4) => (w[3] # w[4])

C13_WitnessHit ==
    /\ Mutated
    /\ last.removed > 0
    /\ last.misses >= 2
    /\ \E i \in 1..Len(last.trace) :
          last.trace[i].run >= 2 /\ last.trace[i].before < 3

\* The elements of vv that lie inside [offset, offset+len), in order.
InWindow(vv, offset, len) ==
    SelectSeq(vv, LAMBDA e : offset <= e.start /\ e.end <= offset + len)

\* No two neighbours in s hold equal values.
NoEqualNeighbours(s) ==
    \A i \in 1..(Len(s) - 1) : s[i].data # s[i + 1].data

\* C14 as stated. Merge timing: after a mutate(o, l) that left some of its
\* merge budget, with the caller's writes done, no two adjacent segments of
\* the window hold equal values: the segments the writes made equal have
\* been coalesced by that same operation.
C14_MergedAfterWrite ==
    (Mutated /\ last.len > 0 /\ InSpace /\ last.smc > 0) =>
        NoEqualNeighbours(InWindow(v, last.offset, last.len))

\* C14, amended. The merges of a mutate(o, l) are done before the values
\* are yielded, on the values the segments hold when the call is made: when
\* the call left some of its budget no two adjacent yielded segments held
\* equal values; the caller's writes then change the values only, so the
\* segments of the window after the operation are the yielded ones with the
\* written values, also where the writes made neighbours equal.
C14_MergeBeforeWrite ==
    [][(last'.op = "mutate" /\ last'.panic = "none" /\ last'.len > 0
            /\ last'.offset + last'.len <= total_size) =>
        LET y == last'.elems
            w == InWindow(v', last'.offset, last'.len)
        IN  /\ (last'.smc > 0) => NoEqualNeighbours(y)
            /\ \A i \in 1..Len(y) :
                  y[i].data = ValueAt(v, y[i].start)
            /\ Len(w) = Len(y)
            /\ \A i \in 1..Len(y) :
                  /\ RangeOf(w[i]) = RangeOf(y[i])
                  /\ w[i].data = last'.f[y[i].data]
      ]_vars

\* A mutate with budget to spare whose writes made two yielded neighbours
\* equal: they are two segments after the operation.
C14_Witness ==
    /\ Mutated
    /\ InSpace
    /\ last.smc > 0
    /\ last.removed > 0
    /\ Len(last.elems) >= 2
    /\ ~NoEqualNeighbours(InWindow(v, last.offset, last.len))

\* C15 as stated. Bounded growth under byte-at-a-time uniform writes: when
\* one value has been written with mutate(i, 1) for i = 0, ..., n-1 in
\* ascending order, the segment count is within a constant that does not
\* depend on n (3, the count one write leaves in a fresh map): the count has
\* not grown by one segment per write.
C15_BoundedFill ==
    (script >= 1 /\ script <= total_size) => (Len(v) <= 3)

\* C15, amended. Byte-at-a-time uniform writes grow the count by one segment
\* per write: after the writes mutate(i, 1) for i = 0, ..., k-1 on a map of
\* size n the count is k + 1 when k < n and n when k = n, whether or not the
\* written value is the initial one, and no call merges anything; one
\* mutate(0, n) after them brings the count to 1.
C15_FillGrowth ==
    /\ last.panic = "none"
    /\ (script <= total_size) =>
          /\ Len(v) = (IF script < total_size THEN script + 1 ELSE total_size)
          /\ last.removed = 0
          /\ \A b \in Bytes : (b < script) => (ValueAt(v, b) = shadow[0])
    /\ (script = total_size + 1) =>
          /\ Len(v) = (IF total_size = 0 THEN 0 ELSE 1)
          /\ (last.op = "mutate") => (last.removed = total_size - Len(v))

\* Every byte of a map of five bytes or more has been written, one at a
\* time, with the value the map was made with: one segment per byte.
C15_Witness ==
    /\ script = total_size
    /\ total_size >= 5
    /\ last.op = "mutate"
    /\ last.offset = total_size - 1
    /\ last.f = Const(last.elems[1].data)
    /\ Len(v) = total_size
    /\ \A i \in 1..Len(v) : v[i].data = v[1].data

\* The last call was a mutate of a non-empty window inside the address
\* space, in the state after the step.
ValidMutate ==
    /\ last'.op = "mutate"
    /\ last'.len > 0
    /\ last'.offset + last'.len <= total_size

\* C16 as stated. Split-before-scan ordering: in every valid mutate(offset,
\* len) with len > 0 the segment on which the scan stops ends exactly at
\* offset + len, the split_index call after the scan splits nothing, and
\* every merge of the scan involves only segments inside [offset, offset+len).
C16_SplitBeforeScan ==
    [][ValidMutate =>
        LET end == last'.offset + last'.len
            c == last'.split_calls
        IN  /\ Len(c) = 2
            /\ c[2].elem[1].end = end
            /\ ~c[2].split
            /\ \A i \in 1..Len(last'.merged) :
                  \A k \in 1..Len(last'.merged[i].run) :
                      /\ last'.offset <= last'.merged[i].run[k].start
                      /\ last'.merged[i].run[k].end <= end
      ]_vars

\* C16, amended. In every valid mutate(offset, len) with len > 0 only the
\* split at offset is made before the scan; the scan stops on the first
\* segment (as merged) whose end is >= offset + len, and the split at
\* offset + len is made after the scan, on that segment, exactly when it
\* ends beyond offset + len.  Every segment a merge involves starts inside
\* [offset, offset+len); the last segment of the last run may end beyond
\* offset + len, and the merged segment is then the one that is split.  The
\* segments yielded after the second split begin at offset and end at
\* offset + len.
C16_SplitAfterScan ==
    [][ValidMutate =>
        LET end == last'.offset + last'.len
            c == last'.split_calls
            m == last'.merged
            y == last'.elems
        IN  /\ last'.panic = "none"
            /\ Len(c) = 2
            /\ c[1].at = last'.offset
            /\ c[1].elem[1] = CHOOSE e \in {v[i] : i \in 1..Len(v)} :
                                  Contains(e, last'.offset)
            /\ c[1].split = (c[1].elem[1].start < last'.offset)
            /\ c[2].at = end
            /\ c[2].elem[1].start < end
            /\ c[2].elem[1].end >= end
            /\ c[2].split = (c[2].elem[1].end > end)
            /\ \A i \in 1..Len(m) : \A k \in 1..Len(m[i].run) :
                  /\ last'.offset <= m[i].run[k].start
                  /\ m[i].run[k].start < end
                  /\ (m[i].run[k].end > end) =>
                        (i = Len(m) /\ k = Len(m[i].run)
                           /\ m[i].into = c[2].elem[1] /\ c[2].split)
            /\ Len(y) >= 1
            /\ y[1].start = last'.offset
            /\ y[Len(y)].end = end
      ]_vars

\* A mutate whose scan merged a run with a segment that ends beyond the
\* window, and split the merged segment at the end of the window afterwards.
C16_Witness ==
    /\ Mutated
    /\ InSpace
    /\ Len(last.split_calls) = 2
    /\ last.split_calls[2].split
    /\ Len(last.merged) >= 1
    /\ last.merged[Len(last.merged)].into = last.split_calls[2].elem[1]
    /\ last.merged[Len(last.merged)].into.end > last.offset + last.len

\* The offsets at which a segment of vv starts or ends.
Boundaries(vv) ==
    {vv[i].start : i \in 1..Len(vv)} \cup {vv[i].end : i \in 1..Len(vv)}

\* C17. Segment count growth per mutate: every valid mutate leaves at most
\* two segments more than there were before the call, makes at most one
\* split at each boundary of its window and none inside the window, and
\* leaves exactly two more when the window lies strictly inside a single
\* segment.
C17_CountGrowth ==
    [][(last'.op = "mutate" /\ last'.offset + last'.len <= total_size) =>
        LET offset == last'.offset
            end == last'.offset + last'.len
        IN  /\ Len(v') <= Len(v) + 2
            /\ last'.splits <= 2
            /\ Boundaries(v') \subseteq (Boundaries(v) \cup {offset, end})
            /\ (last'.len > 0
                  /\ \E i \in 1..Len(v) : v[i].start < offset /\ end < v[i].end)
               => /\ Len(v') = Len(v) + 2
                  /\ Boundaries(v') = Boundaries(v) \cup {offset, end}
      ]_vars

\* One byte strictly inside the single segment of a fresh map has been
\* written: 3 segments.
C17_Witness ==
    /\ Mutated
    /\ last.preLen = 1
    /\ last.len = 1
    /\ last.offset > 0
    /\ last.offset + 1 < total_size
    /\ ~NoChange
    /\ Len(v) = 3

\* find_offset(offset) on vv ends without a panic, every interval of its
\* search is non-empty and lies strictly inside the one before, and the
\* index it returns is that of the one element that contains offset.
Locates(vv, offset) ==
    LET r == find_offset(vv, offset)
        n == Len(r.steps)
    IN  /\ r.panic = "none"
        /\ r.steps[1] = [left |-> 0, right |-> Len(vv)]
        /\ \A k \in 1..n : r.steps[k].left < r.steps[k].right
        /\ \A k \in 1..(n - 1) :
              /\ r.steps[k].left <= r.steps[k + 1].left
              /\ r.steps[k + 1].right <= r.steps[k].right
              /\ r.steps[k + 1].right - r.steps[k + 1].left
                    < r.steps[k].right - r.steps[k].left
        /\ n <= Len(vv)
        /\ r.idx \in 0..(Len(vv) - 1)
        /\ Contains(At(vv, r.idx), offset)
        /\ \A i \in 0..(Len(vv) - 1) :
              Contains(At(vv, i), offset) => (i = r.idx)

\* C18. Locator correctness: on every store, which satisfies the tiling
\* invariant, and for every offset with 0 <= offset < total_size,
\* find_offset terminates, its interval [left, right) shrinking strictly at
\* every step and never empty, and returns the index of the unique segment
\* with start <= offset < end.
C18_Locator ==
    /\ Tiling(v, total_size)
    /\ \A offset \in Bytes : Locates(v, offset)

\* A read has located its offset in the fourth of five segments, in three
\* steps of the search.
C18_Witness ==
    /\ last.op = "read"
    /\ last.located
    /\ last.panic = "none"
    /\ Len(v) = 5
    /\ LET r == find_offset(v, last.offset)
       IN  /\ Len(r.steps) = 3
           /\ r.idx = 3

\* C19. No internal assertion fails on valid input: in every mutate(offset,
\* len) with len > 0 and offset + len <= total_size, on every reachable
\* store, no debug_assert fails and no index is out of range (the scan finds
\* a segment whose end is >= offset + len before its index runs past the
\* last segment, also after a merge), each of the two split_index calls is
\* given an index of the vector and a split offset within or at the bounds
\* of the element at that index, and the scan makes at least one and at most
\* as many iterations as there were segments.
C19_NoAssertFails ==
    [][ValidMutate =>
        LET c == last'.split_calls
        IN  /\ last'.panic = "none"
            /\ Len(c) = 2
            /\ \A k \in 1..2 :
                  /\ Len(c[k].elem) = 1
                  /\ c[k].elem[1].start <= c[k].at
                  /\ c[k].at <= c[k].elem[1].end
            /\ last'.iters >= 1
            /\ last'.iters <= Len(v)
            /\ Len(last'.trace) = last'.iters
      ]_vars

\* A mutate that split at both ends of its window and whose scan merged a
\* run and went on to further segments after the merge.
C19_Witness ==
    /\ Mutated
    /\ InSpace
    /\ Len(last.split_calls) = 2
    /\ last.split_calls[1].split
    /\ last.split_calls[2].split
    /\ \E i \in 1..(Len(last.trace) - 1) : last.trace[i].removed > 0

\* The ranges of the segments of vv, in order.
Ranges(vv) == [i \in 1..Len(vv) |-> RangeOf(vv[i])]

\* C20. Splits commit before yielding: the call of iter_mut makes all its
\* structural changes, both splits and all merges, before a value is
\* yielded: the segment ranges it leaves with nothing taken are those a
\* mutate consumed to the end leaves; taking a value changes the data of the
\* one segment yielded and nothing else, and dropping the iterator changes
\* nothing, so after any prefix of the values, none included, the store
\* tiles the address space with those same segment ranges.
C20_CommitBeforeYield ==
    [][/\ Tiling(v', total_size)
       /\ (last.op # "iter_mut" /\ last'.op = "iter_mut"
             /\ last'.panic = "none") =>
             LET r == iter_mut(v, last'.offset, last'.len)
             IN  /\ Ranges(v') = Ranges(written(r, last'.f))
                 /\ \A b \in Bytes : ValueAt(v', b) = ValueAt(v, b)
                 /\ Len(v') = Len(v) + last'.splits - last'.removed
       /\ (last.op = "iter_mut") =>
             /\ Ranges(v') = Ranges(v)
             /\ (script' = script + 1) =>
                   LET y == last.elems[script']
                   IN  \A i \in 1..Len(v) :
                          v'[i].data = IF RangeOf(v[i]) = RangeOf(y)
                                       THEN last.f[y.data]
                                       ELSE v[i].data
             /\ (last'.op # "iter_mut") => (v' = v)
      ]_vars

\* An iterator whose call split at both ends of the window and merged a
\* run, with one value taken and written and another not yet taken.
C20_Witness ==
    /\ last.op = "iter_mut"
    /\ last.panic = "none"
    /\ script >= 1
    /\ script < Len(last.elems)
    /\ last.splits = 2
    /\ last.removed > 0
    /\ last.f[last.elems[1].data] # last.elems[1].data

====
